---- MODULE Spec2Model ----
(***************************************************************************)
(* Model of the voice-app capture core (src-tauri/src/mic.rs), its setup   *)
(* (lib.rs) and its upload client (api.rs).                                *)
(*                                                                         *)
(* The specifications share the variables:                                 *)
(*   Spec        the capture session: start_mic / stop_mic on caller       *)
(*               threads racing the hardware callback, short deliveries;   *)
(*   SpecLevel   the same session with deliveries long enough to fill the  *)
(*               level window and a clock, for the level meter's throttle; *)
(*   SpecUpload  send_audio against a server that may answer anything;     *)
(*   SpecRace    the capture session with two caller threads;              *)
(*   SpecMeter   handle_mono_samples applied to one delivery, with the     *)
(*               mutexes it is handed sound or poisoned;                   *)
(*   SpecPure    the resampler and the sample converters applied to        *)
(*               arguments drawn from bounded sets.                        *)
(***************************************************************************)
EXTENDS Integers, Sequences, FiniteSets, TLC

VARIABLES
    \* ---- api.rs: one send_audio call in flight at a time
    upPc,                \* position of the send_audio future
    server_url,          \* its server_url argument (a sequence of characters)
    requests,            \* the URLs POSTed so far by this call, in order
    pipeline_response,   \* response of the primary POST, or NoResponse
    transcribe_response, \* response of the fallback POST, or NoResponse
    sendResult,          \* what send_audio returned, or NoResult
    \* ---- mic.rs: MicState (8-14)
    recording,           \* *state.recording
    buffer,              \* *state.buffer: the CaptureBuffer, i16 samples
    stream,              \* *state.stream: "None" or "Some"
    input_sample_rate,   \* *state.input_sample_rate
    app_handle,          \* *state.app_handle: "None" or "Some"
    \* ---- mic.rs: what the stream's callback closure owns (270-272)
    rms_buffer,          \* the level window, f32 samples
    last_emit,           \* the Instant of the last emission, in ms
    \* ---- locks
    held,                \* held[t]: the locks thread t holds between its steps
    poisoned,            \* the locks a panic has poisoned
    \* ---- threads
    pc,                  \* pc[c]: position of caller thread c in its command
    res,                 \* res[c]: what the command of c returned
    config,              \* the device configuration start_mic obtained
    cbPc,                \* position of the audio thread in the data callback
    cbData,              \* the delivery being handled: the native buffer, then
                         \* the mono samples made of it
    \* ---- environment
    live_streams,        \* cpal input streams that exist (built, not dropped)
    playing,             \* the stream has been started and delivers buffers
    now,                 \* the clock: ms since the stream's closure was created
    events,              \* mic-level events the UI sink received this session
    \* ---- history of the current session
    session,             \* its native rate and the samples its callback accepted
    windows,             \* level windows completed: when, and whether emitted
    \* ---- mic.rs: one call of a pure function (SpecPure)
    fnArgs,              \* the function called and its arguments
    fnResult             \* what it returned, or NoValue

uploadVars == <<upPc, server_url, requests, pipeline_response,
                transcribe_response, sendResult>>

micVars == <<recording, buffer, stream, input_sample_rate, app_handle,
             rms_buffer, last_emit, held, poisoned, pc, res, config, cbPc,
             cbData, live_streams, playing, now, events, session, windows>>

pureVars == <<fnArgs, fnResult>>

vars == <<uploadVars, micVars, pureVars>>

(***************************************************************************)
(* Bounds of the model.                                                    *)
(***************************************************************************)
MaxUrlLen == 3
MaxFrames == 2     \* frames per delivery in Spec
MaxBuf == 4        \* samples the CaptureBuffer holds in Spec
MaxWindows == 2    \* level windows' worth of samples it holds in SpecLevel
MaxTime == 110     \* ms the clock of SpecLevel runs
MaxLen == 3        \* length of the arguments of SpecPure
MaxRaceBuf == 1    \* samples the CaptureBuffer holds in SpecRace

(***************************************************************************)
(* api.rs                                                                  *)
(***************************************************************************)

\* A string is a sequence of one-character strings.
UrlChars == {"h", "/"}

RECURSIVE StringsUpTo(_)
StringsUpTo(n) ==
    IF n = 0 THEN {<<>>}
    ELSE LET shorter == StringsUpTo(n - 1)
         IN  shorter \cup {Append(s, c) : s \in {t \in shorter : Len(t) = n - 1},
                                          c \in UrlChars}

ServerUrls == StringsUpTo(MaxUrlLen)

PipelinePath ==
    <<"/", "a", "p", "i", "/", "p", "i", "p", "e", "l", "i", "n", "e",
      "/", "r", "u", "n", "/", "a", "u", "d", "i", "o">>
TranscribePath == <<"/", "a", "p", "i", "/", "t", "r", "a", "n", "s", "c", "r", "i", "b", "e">>

\* str::trim_end_matches('/'): drops the pattern from the end repeatedly,
\* until the string no longer ends with it.
strip1(s) ==
    IF Len(s) > 0 /\ s[Len(s)] = "/" THEN SubSeq(s, 1, Len(s) - 1) ELSE s

RECURSIVE trim_end_matches(_)
trim_end_matches(s) ==
    IF Len(s) > 0 /\ s[Len(s)] = "/"
    THEN trim_end_matches(SubSeq(s, 1, Len(s) - 1))
    ELSE s

pipeline_url(u) == trim_end_matches(u) \o PipelinePath
transcribe_url(u) == trim_end_matches(u) \o TranscribePath

\* ---- JSON values (serde_json::Value) ----
JNull == [kind |-> "null"]
JString(s) == [kind |-> "string", str |-> s]
JArray(a) == [kind |-> "array", items |-> a]
JObject(f) == [kind |-> "object", fields |-> f]

EmptyFields == [k \in {} |-> JNull]

\* Map::insert: the key is added, or its value replaced.
insert(f, key, v) ==
    [k \in (DOMAIN f) \cup {key} |-> IF k = key THEN v ELSE f[k]]

\* The response bodies the server may send, and what Response::json makes of
\* each: a JSON value, or a parse error for a body that is no JSON text.
Bodies == {"{\"text\":\"hi\",\"job_id\":\"42\"}", "{}",
           "{\"_endpoint_used\":\"server\"}", "[\"hi\"]", "\"hi\"", "null",
           "oops", ""}

ParseError == [kind |-> "error"]

json(body) ==
    CASE body = "{\"text\":\"hi\",\"job_id\":\"42\"}" ->
            JObject(insert(insert(EmptyFields, "text", JString("hi")),
                           "job_id", JString("42")))
      [] body = "{}" -> JObject(EmptyFields)
      [] body = "{\"_endpoint_used\":\"server\"}" ->
            JObject(insert(EmptyFields, "_endpoint_used", JString("server")))
      [] body = "[\"hi\"]" -> JArray(<<JString("hi")>>)
      [] body = "\"hi\"" -> JString("hi")
      [] body = "null" -> JNull
      [] OTHER -> ParseError

\* ---- results of send_audio ----
NoResult == [kind |-> "none"]
Ok(v) == [kind |-> "ok", value |-> v]
TransportError(url) == [kind |-> "transport", url |-> url]
ServerError(status, body) == [kind |-> "server", status |-> status, body |-> body]
JsonError(label) == [kind |-> "json", label |-> label]

\* ---- what the network makes of one POST (post_audio) ----
NoResponse == [kind |-> "none"]
SendFailed == [kind |-> "failed"]
Response(status, body) == [kind |-> "response", status |-> status, body |-> body]

Statuses == {200, 201, 304, 404, 405, 500}
PostOutcomes == {SendFailed} \cup {Response(s, b) : s \in Statuses, b \in Bodies}

\* StatusCode::is_success
is_success(status) == status >= 200 /\ status <= 299

\* api.rs 85-86: the statuses of the primary endpoint that lead to the fallback
FallbackOnAnyStatus(status) == ~is_success(status)
is_fallback_status(status) == status = 404 \/ status = 405

\* parse_json_response: parse the body, tag an object with the endpoint label
TagAlways(value, endpoint_label) ==
    IF value.kind = "object"
    THEN JObject(insert(value.fields, "_endpoint_used", JString("pipeline_run_audio")))
    ELSE value
tag(value, endpoint_label) ==
    IF value.kind = "object"
    THEN JObject(insert(value.fields, "_endpoint_used", JString(endpoint_label)))
    ELSE value

parse_json_response(response, endpoint_label) ==
    LET result == json(response.body)
    IN  IF result = ParseError THEN JsonError(endpoint_label)
        ELSE Ok(tag(result, endpoint_label))

\* post_audio(...).await? : the URL is POSTed; a send failure ends send_audio
\* with the error, a response of any status is handed back.
FallbackAfterSendFailure(outcome, url, onResponse) ==
    IF outcome = SendFailed
    THEN /\ upPc' = "post_transcribe"
         /\ sendResult' = sendResult
    ELSE /\ upPc' = onResponse
         /\ sendResult' = sendResult
after_post(outcome, url, onResponse) ==
    IF outcome = SendFailed
    THEN /\ upPc' = "done"
         /\ sendResult' = TransportError(url)
    ELSE /\ upPc' = onResponse
         /\ sendResult' = sendResult

(***************************************************************************)
(* mic.rs: constants and pure functions                                    *)
(***************************************************************************)
TARGET_SAMPLE_RATE == 16000
RMS_WINDOW == 800
MIN_EMIT_INTERVAL_MS == 50
I16_MAX == 32767
I16_MIN == -32768
U16_MAX == 65535

\* An f32 sample x is held as the integer 1000 * x. The samples the model
\* feeds in are multiples of 1/8 (or the ends of the integer ranges), on
\* which the f32 arithmetic of the code is exact and so is this one.
Milli == 10 * 10 * 10

\* `as i16` and integer conversion of a float: truncation toward zero
Trunc(n, d) == IF n >= 0 THEN n \div d ELSE -((-n) \div d)

\* f32::clamp(-1.0, 1.0)
clamp(x) == IF x < -Milli THEN -Milli ELSE IF x > Milli THEN Milli ELSE x

\* mic.rs 50-52
to_i16(sample) == Trunc(clamp(sample) * I16_MAX, Milli)

RECURSIVE SumSeq(_)
SumSeq(s) == IF s = <<>> THEN 0 ELSE Head(s) + SumSeq(Tail(s))

\* slice::chunks(n): frames of n elements, the last one shorter when the
\* length is no multiple of n
NumWholeChunks(len, n) == len \div n
NumChunks(len, n) == (len + n - 1) \div n
Chunk(data, n, f) ==
    SubSeq(data, (f - 1) * n + 1, IF f * n < Len(data) THEN f * n ELSE Len(data))

f32_norm(s) == clamp(s)
i16_norm(s) == clamp(Trunc(s * Milli, I16_MAX))
u16_norm(s) == clamp(Trunc(s * 2 * Milli, U16_MAX) - Milli)

\* how a converter brings one native sample into [-1, 1]
norm(format, s) ==
    CASE format = "F32" -> f32_norm(s)
      [] format = "I16" -> i16_norm(s)
      [] format = "U16" -> u16_norm(s)

\* the shared shape of the three converters (54-64, 66-82, 84-95): every
\* channel value is normalised and clamped, a frame is averaged over
\* `channels` and clamped again
downmix(data, channels, format) ==
    IF channels <= 1
    THEN [i \in 1..Len(data) |-> norm(format, data[i])]
    ELSE [f \in 1..NumChunks(Len(data), channels) |->
            LET frame == Chunk(data, channels, f)
                sum == SumSeq([i \in 1..Len(frame) |-> norm(format, frame[i])])
            IN  clamp(Trunc(sum, channels))]

interleaved_f32_to_mono(data, channels) == downmix(data, channels, "F32")
interleaved_i16_to_mono(data, channels) == downmix(data, channels, "I16")
interleaved_u16_to_mono(data, channels) == downmix(data, channels, "U16")

\* mic.rs 184-231: the converter the callback of each sample format uses
to_mono(data, cfg) ==
    CASE cfg.format = "F32" -> interleaved_f32_to_mono(data, cfg.channels)
      [] cfg.format = "I16" -> interleaved_i16_to_mono(data, cfg.channels)
      [] cfg.format = "U16" -> interleaved_u16_to_mono(data, cfg.channels)

\* mic.rs 109: the quantized samples appended to the CaptureBuffer
quantize(mono) == [i \in 1..Len(mono) |-> to_i16(mono[i])]

\* mic.rs 141-163. pos is k * input_rate / output_rate after k rounds of
\* `pos += step`; the model's rates make step a dyadic number, so pos and
\* frac are exact in the code's floats.
clamp_i16(v) == IF v < I16_MIN THEN I16_MIN ELSE IF v > I16_MAX THEN I16_MAX ELSE v

RECURSIVE resample_loop(_, _, _, _)
resample_loop(input, input_rate, output_rate, k) ==
    LET i == (k * input_rate) \div output_rate
        fracNum == k * input_rate - i * output_rate
    IN  IF i + 1 < Len(input)
        THEN LET a == input[i + 1]
                 b == input[i + 2]
             IN  <<clamp_i16(Trunc(a * output_rate + (b - a) * fracNum, output_rate))>>
                    \o resample_loop(input, input_rate, output_rate, k + 1)
        ELSE <<>>

ResampleWithoutRateTest(input, input_rate, output_rate) ==
    IF input = <<>>
    THEN input
    ELSE LET output == resample_loop(input, input_rate, output_rate, 0)
         IN  IF output = <<>> THEN <<input[1]>> ELSE output

ResampleWithoutGuard(input, input_rate, output_rate) ==
    IF input = <<>> \/ input_rate = output_rate
    THEN input
    ELSE resample_loop(input, input_rate, output_rate, 0)

resample_linear_i16(input, input_rate, output_rate) ==
    IF input = <<>> \/ input_rate = output_rate
    THEN input
    ELSE LET output == resample_loop(input, input_rate, output_rate, 0)
         IN  IF output = <<>> THEN <<input[1]>> ELSE output

(***************************************************************************)
(* mic.rs: the session, its threads and its environment                    *)
(***************************************************************************)
AllCallers == {"ui1", "ui2"}
AudioThread == "audio"
Threads == AllCallers \cup {AudioThread}
Locks == {"recording", "buffer", "stream", "input_sample_rate", "app_handle",
          "rms_buffer", "last_emit"}

\* Mutex::lock blocks while another thread holds the guard
LockAlwaysFree(l) == TRUE
LockFree(l) == \A t \in Threads : l \notin held[t]

\* results of start_mic and stop_mic
NoMicResult == [kind |-> "none"]
Started == [kind |-> "started"]
Stopped(samples) == [kind |-> "stopped", samples |-> samples]
Err(msg) == [kind |-> "err", msg |-> msg]

\* the history of a session: the rate its start recorded, the quantized
\* samples of the deliveries its callback accepted
NoSession == [rate |-> 0, samples |-> <<>>]

NoConfig == [rate |-> 0, channels |-> 0, format |-> "none"]
Config(r, c, f) == [rate |-> r, channels |-> c, format |-> f]
SupportedFormats == {"F32", "I16", "U16"}

\* What the default input device may report. The rates are those for which
\* the resampler's float arithmetic is exact (step 1/2, 1, 3).
DeviceConfigs ==
    {Config(16000, 1, "F32"), Config(48000, 2, "F32"), Config(8000, 1, "I16"),
     Config(48000, 1, "U16"), Config(16000, 0, "F32"), Config(48000, 1, "I8")}

\* Native sample patterns a delivery repeats, per sample format.
CapturePatterns(format) ==
    CASE format = "F32" -> {<<500>>, <<-1500>>, <<500, -1500>>}
      [] format = "I16" -> {<<I16_MAX>>, <<I16_MIN, 0>>}
      [] format = "U16" -> {<<U16_MAX>>, <<0, U16_MAX>>}
      [] OTHER -> {}

LevelPatterns(format) ==
    CASE format = "F32" -> {<<500>>}
      [] OTHER -> {}

\* a delivery of n frames of `channels` samples, filled with the pattern
Fill(pattern, n, channels) ==
    [i \in 1..(n * channels) |-> pattern[((i - 1) % Len(pattern)) + 1]]

\* The inputs of one specification: who calls the commands, what the device
\* reports, what it delivers, how far the CaptureBuffer may grow.
CaptureProfile ==
    [callers |-> {"ui1"}, configs |-> DeviceConfigs, frames |-> 1..MaxFrames,
     level |-> FALSE, cap |-> MaxBuf]
LevelProfile ==
    [callers |-> {"ui1"}, configs |-> {Config(16000, 1, "F32")},
     frames |-> {RMS_WINDOW \div 2, RMS_WINDOW}, level |-> TRUE,
     cap |-> MaxWindows * RMS_WINDOW]

\* two caller threads, one device configuration, one-sample deliveries
RaceProfile ==
    [callers |-> AllCallers, configs |-> {Config(16000, 1, "F32")},
     frames |-> {1}, level |-> FALSE, cap |-> MaxRaceBuf]

Deliveries(P, cfg) ==
    {Fill(pat, n, cfg.channels) :
        pat \in (IF P.level THEN LevelPatterns(cfg.format) ELSE CapturePatterns(cfg.format)),
        n \in P.frames}

\* sum of squares of a window, taken value by value
RECURSIVE SumSqOver(_, _)
SumSqOver(vals, w) ==
    IF vals = {} THEN 0
    ELSE LET v == CHOOSE x \in vals : TRUE
         IN  v * v * Cardinality({i \in 1..Len(w) : w[i] = v}) + SumSqOver(vals \ {v}, w)
SumSq(w) == SumSqOver({w[i] : i \in 1..Len(w)}, w)

InitMic ==
    /\ recording = FALSE
    /\ buffer = <<>>
    /\ stream = "None"
    /\ input_sample_rate = TARGET_SAMPLE_RATE
    /\ app_handle = "None"
    /\ rms_buffer = <<>>
    /\ last_emit = 0
    /\ held = [t \in Threads |-> {}]
    /\ poisoned = {}
    /\ pc = [c \in AllCallers |-> "idle"]
    /\ res = [c \in AllCallers |-> NoMicResult]
    /\ config = NoConfig
    /\ cbPc = "idle"
    /\ cbData = <<>>
    /\ live_streams = 0
    /\ playing = FALSE
    /\ now = 0
    /\ events = <<>>
    /\ session = NoSession
    /\ windows = <<>>

\* a command returns: its guards are dropped, the caller has the result
Return(c, r) ==
    /\ pc' = [pc EXCEPT ![c] = "idle"]
    /\ res' = [res EXCEPT ![c] = r]
    /\ held' = [held EXCEPT ![c] = {}]

Goto(c, label) ==
    /\ pc' = [pc EXCEPT ![c] = label]
    /\ UNCHANGED res

\* lib.rs 12-17, mic.rs 34-38: setup hands the AppHandle to the session
\* before the application runs and commands can be invoked
Setup ==
    /\ app_handle = "None"
    /\ LockFree("app_handle")
    /\ app_handle' = IF "app_handle" \in poisoned THEN app_handle ELSE "Some"
    /\ UNCHANGED <<recording, buffer, stream, input_sample_rate, rms_buffer,
                   last_emit, held, poisoned, pc, res, config, cbPc, cbData,
                   live_streams, playing, now, events, session, windows>>
    /\ UNCHANGED <<uploadVars, pureVars>>

\* the UI invokes a command on a caller thread (lib.rs 18-22)
Invoke(P, c, command) ==
    /\ c \in P.callers
    /\ app_handle = "Some"
    /\ pc[c] = "idle"
    /\ pc' = [pc EXCEPT ![c] = command]
    /\ res' = [res EXCEPT ![c] = NoMicResult]
    /\ UNCHANGED <<recording, buffer, stream, input_sample_rate, app_handle,
                   rms_buffer, last_emit, held, poisoned, config, cbPc, cbData,
                   live_streams, playing, now, events, session, windows>>
    /\ UNCHANGED <<uploadVars, pureVars>>

InvokeStart(P) == \E c \in AllCallers : Invoke(P, c, "start_lock")
InvokeStop(P) == \E c \in AllCallers : Invoke(P, c, "stop_lock")

PoisonMsg == "poisoned lock: another task failed inside"

\* Dropping a cpal stream (the end of start_mic on an error after 283, or
\* 306) returns once the data callback is not running: the callback's
\* position must be "idle".
DropNeverWaits(cb) == TRUE
drop_returns(cb) == cb = "idle"

\* ---- start_mic (235-292) ----

\* 237: the guard that rejects a second start
NeverRejectsStart(flag) == FALSE
start_rejects(flag) == flag

\* 244: buf.clear()
KeepBuffer(buf) == buf
clear(buf) == <<>>

\* 236-239: take the recording lock, reject when already recording
StartLock(c) ==
    /\ pc[c] = "start_lock"
    /\ LockFree("recording")
    /\ IF "recording" \in poisoned THEN Return(c, Err(PoisonMsg))
       ELSE IF start_rejects(recording) THEN Return(c, Err("Already recording"))
       ELSE /\ held' = [held EXCEPT ![c] = {"recording"}]
            /\ Goto(c, "start_clear")
    /\ UNCHANGED <<recording, buffer, stream, input_sample_rate, app_handle,
                   rms_buffer, last_emit, poisoned, config, cbPc, cbData,
                   live_streams, playing, now, events, session, windows>>
    /\ UNCHANGED <<uploadVars, pureVars>>

\* 241-244: clear the previous buffer under its lock, taken inside the
\* recording guard; the block's end (245) releases it
StartClear(c) ==
    /\ pc[c] = "start_clear"
    /\ LockFree("buffer")
    /\ IF "buffer" \in poisoned
       THEN /\ Return(c, Err(PoisonMsg))
            /\ UNCHANGED buffer
       ELSE /\ buffer' = clear(buffer)
            /\ held' = [held EXCEPT ![c] = {"recording", "buffer"}]
            /\ Goto(c, "start_device")
    /\ UNCHANGED <<recording, stream, input_sample_rate, app_handle,
                   rms_buffer, last_emit, poisoned, config, cbPc, cbData,
                   live_streams, playing, now, events, session, windows>>
    /\ UNCHANGED <<uploadVars, pureVars>>

\* what the host answers when asked for the default input device and its
\* default configuration
DeviceOutcomes(P) ==
    {[kind |-> "no_device"], [kind |-> "config_error"]}
        \cup {[kind |-> "config", config |-> cfg] : cfg \in P.configs}

\* 245-263: the buffer lock is released; default device, its default
\* configuration; the native rate is stored under its lock, taken inside the
\* recording guard and released by the block's end (264)
StartDevice(P, c) ==
    /\ pc[c] = "start_device"
    /\ LockFree("input_sample_rate")
    /\ \E o \in DeviceOutcomes(P) :
          IF o.kind = "no_device"
          THEN /\ Return(c, Err("No input device available"))
               /\ UNCHANGED <<input_sample_rate, config>>
          ELSE IF o.kind = "config_error"
          THEN /\ Return(c, Err("Failed to get default input config"))
               /\ UNCHANGED <<input_sample_rate, config>>
          ELSE IF "input_sample_rate" \in poisoned
          THEN /\ Return(c, Err(PoisonMsg))
               /\ UNCHANGED <<input_sample_rate, config>>
          ELSE /\ input_sample_rate' = o.config.rate
               /\ config' = o.config
               /\ held' = [held EXCEPT ![c] = {"recording", "input_sample_rate"}]
               /\ Goto(c, "start_build")
    /\ UNCHANGED <<recording, buffer, stream, app_handle, rms_buffer, last_emit,
                   poisoned, cbPc, cbData, live_streams, playing, now, events,
                   session, windows>>
    /\ UNCHANGED <<uploadVars, pureVars>>

\* 264-283, build_stream 165-232: the rate lock is released; a fresh level
\* window and timestamp, then the stream is built for the device's sample
\* format, or fails
StartBuild(c) ==
    /\ pc[c] = "start_build"
    /\ events' = <<>>
    /\ windows' = <<>>
    /\ IF config.channels = 0
       THEN /\ Return(c, Err("Input device reports zero channels"))
            /\ UNCHANGED <<live_streams, rms_buffer, last_emit, now>>
       ELSE IF config.format \notin SupportedFormats
       THEN /\ Return(c, Err("Unsupported sample format"))
            /\ UNCHANGED <<live_streams, rms_buffer, last_emit, now>>
       ELSE \E built \in BOOLEAN :
               IF built
               THEN /\ live_streams' = live_streams + 1
                    /\ rms_buffer' = <<>>
                    /\ now' = 0
                    /\ last_emit' = now'
                    /\ held' = [held EXCEPT ![c] = {"recording"}]
                    /\ Goto(c, "start_play")
               ELSE /\ Return(c, Err("Failed to build input stream"))
                    /\ UNCHANGED <<live_streams, rms_buffer, last_emit, now>>
    /\ UNCHANGED <<recording, buffer, stream, input_sample_rate, app_handle,
                   poisoned, config, cbPc, cbData, playing, session>>
    /\ UNCHANGED <<uploadVars, pureVars>>

\* 285: stream.play(); on failure the stream built is dropped by the return
StartPlay(c) ==
    /\ pc[c] = "start_play"
    /\ \E started \in BOOLEAN :
          IF started
          THEN /\ playing' = TRUE
               /\ Goto(c, "start_store")
               /\ UNCHANGED <<held, live_streams, rms_buffer, last_emit, now>>
          ELSE /\ live_streams' = live_streams - 1
               /\ rms_buffer' = <<>>
               /\ last_emit' = 0
               /\ now' = 0
               /\ Return(c, Err("Failed to start stream"))
               /\ UNCHANGED playing
    /\ UNCHANGED <<recording, buffer, stream, input_sample_rate, app_handle,
                   poisoned, config, cbPc, cbData, events, session, windows>>
    /\ UNCHANGED <<uploadVars, pureVars>>

\* 287-291: set the flag, store the stream, return
StartStore(c) ==
    /\ pc[c] = "start_store"
    /\ LockFree("stream")
    /\ recording' = TRUE
    /\ IF "stream" \in poisoned
       THEN \* the stream is dropped by the return; the drop waits for a
            \* running callback
            /\ drop_returns(cbPc)
            /\ live_streams' = live_streams - 1
            /\ playing' = FALSE
            /\ rms_buffer' = <<>>
            /\ last_emit' = 0
            /\ now' = 0
            /\ Return(c, Err(PoisonMsg))
            /\ UNCHANGED <<stream, session>>
       ELSE /\ stream' = "Some"
            /\ live_streams' = IF stream = "Some" THEN live_streams - 1 ELSE live_streams
            /\ session' = [rate |-> config.rate, samples |-> <<>>]
            /\ Return(c, Started)
            /\ UNCHANGED <<playing, rms_buffer, last_emit, now>>
    /\ UNCHANGED <<buffer, input_sample_rate, app_handle,
                   poisoned, config, cbPc, cbData, events, windows>>
    /\ UNCHANGED <<uploadVars, pureVars>>

\* ---- stop_mic (295-320) ----

\* 297: the guard that rejects a stop while idle
NeverRejectsStop(flag) == FALSE
stop_rejects(flag) == ~flag

\* 296-301: take the recording lock, reject when idle, clear the flag
StopLock(c) ==
    /\ pc[c] = "stop_lock"
    /\ LockFree("recording")
    /\ IF "recording" \in poisoned
       THEN /\ Return(c, Err(PoisonMsg))
            /\ UNCHANGED recording
       ELSE IF stop_rejects(recording)
       THEN /\ Return(c, Err("Not recording"))
            /\ UNCHANGED recording
       ELSE /\ recording' = FALSE
            /\ held' = [held EXCEPT ![c] = {"recording"}]
            /\ Goto(c, "stop_drop")
    /\ UNCHANGED <<buffer, stream, input_sample_rate, app_handle, rms_buffer,
                   last_emit, poisoned, config, cbPc, cbData, live_streams,
                   playing, now, events, session, windows>>
    /\ UNCHANGED <<uploadVars, pureVars>>

\* 303-306: *stream_holder = None drops the cpal stream, under the stream
\* lock taken inside the recording guard (released at 307). Dropping it stops
\* the device and returns once the data callback it may be running has
\* returned (the backend joins or stops its audio thread); the closure goes
\* with it, and so do the level window and the timestamp it owns.
KeepHolder(holder) == holder
take(holder) == "None"

StopDrop(c) ==
    /\ pc[c] = "stop_drop"
    /\ LockFree("stream")
    /\ IF "stream" \in poisoned
       THEN /\ Return(c, Err(PoisonMsg))
            /\ UNCHANGED <<stream, live_streams, playing, rms_buffer, last_emit,
                           events, windows, now>>
       ELSE /\ stream = "Some" => drop_returns(cbPc)
            /\ stream' = take(stream)
            /\ live_streams' = IF stream = "Some" THEN live_streams - 1 ELSE live_streams
            /\ playing' = IF stream = "Some" THEN FALSE ELSE playing
            /\ rms_buffer' = <<>>
            /\ last_emit' = 0
            /\ now' = 0
            /\ events' = <<>>
            /\ windows' = <<>>
            /\ held' = [held EXCEPT ![c] = {"recording", "stream"}]
            /\ Goto(c, "stop_read")
    /\ UNCHANGED <<recording, buffer, input_sample_rate, app_handle,
                   poisoned, config, cbPc, cbData, session>>
    /\ UNCHANGED <<uploadVars, pureVars>>

\* 307-319: the stream lock is released; read the native rate, snapshot the
\* buffer (each under its lock, inside the recording guard), resample, return
StopRead(c) ==
    /\ pc[c] = "stop_read"
    /\ LockFree("input_sample_rate")
    /\ LockFree("buffer")
    /\ IF "input_sample_rate" \in poisoned \/ "buffer" \in poisoned
       THEN Return(c, Err(PoisonMsg))
       ELSE LET input_rate == input_sample_rate
                buf == buffer
            IN  IF input_rate = TARGET_SAMPLE_RATE
                THEN Return(c, Stopped(buf))
                ELSE Return(c, Stopped(resample_linear_i16(buf, input_rate,
                                                           TARGET_SAMPLE_RATE)))
    /\ session' = NoSession
    /\ UNCHANGED <<recording, buffer, stream, input_sample_rate, app_handle,
                   rms_buffer, last_emit, poisoned, config, cbPc, cbData,
                   live_streams, playing, now, events, windows>>
    /\ UNCHANGED <<uploadVars, pureVars>>

\* ---- the data callback (188-195, 203-210, 218-225) and
\* ---- handle_mono_samples (97-139), on the audio thread ----

\* the device delivers a native buffer: the callback is entered
CbInvoke(P) ==
    /\ cbPc = "idle"
    /\ playing
    /\ live_streams > 0
    /\ \E data \in Deliveries(P, config) :
          /\ Len(buffer) + Len(data) \div config.channels <= P.cap
          /\ cbData' = data
    /\ cbPc' = "check"
    /\ UNCHANGED <<recording, buffer, stream, input_sample_rate, app_handle,
                   rms_buffer, last_emit, held, poisoned, pc, res, config,
                   live_streams, playing, now, events, session, windows>>
    /\ UNCHANGED <<uploadVars, pureVars>>

\* 189-193: read the recording flag under its lock; not recording: return;
\* recording: convert the delivery to mono
CbCheck ==
    /\ cbPc = "check"
    /\ LockFree("recording")
    /\ LET is_recording == IF "recording" \in poisoned THEN FALSE ELSE recording
           mono == to_mono(cbData, config)
       IN  IF is_recording
           THEN /\ cbPc' = "append"
                /\ cbData' = mono
                /\ session' = [session EXCEPT !.samples = @ \o quantize(cbData')]
           ELSE /\ cbPc' = "idle"
                /\ cbData' = <<>>
                /\ UNCHANGED session
    /\ UNCHANGED <<recording, buffer, stream, input_sample_rate, app_handle,
                   rms_buffer, last_emit, held, poisoned, pc, res, config,
                   live_streams, playing, now, events, windows>>
    /\ UNCHANGED <<uploadVars, pureVars>>

\* 194, 104-110: handle_mono_samples appends the quantized samples
CbAppend ==
    /\ cbPc = "append"
    /\ LockFree("buffer")
    /\ LET mono == cbData
       IN  IF mono = <<>>
           THEN /\ cbPc' = "idle"
                /\ cbData' = <<>>
                /\ UNCHANGED buffer
           ELSE /\ buffer' = IF "buffer" \in poisoned THEN buffer
                             ELSE buffer \o quantize(mono)
                /\ cbPc' = "level"
                /\ UNCHANGED cbData
    /\ UNCHANGED <<recording, stream, input_sample_rate, app_handle, rms_buffer,
                   last_emit, held, poisoned, pc, res, config, live_streams,
                   playing, now, events, session, windows>>
    /\ UNCHANGED <<uploadVars, pureVars>>

\* 116-119: emit when the last emission is old enough, or its lock is poisoned
AlwaysEmit(elapsed) == TRUE
EmitAfterInterval(elapsed) == elapsed > MIN_EMIT_INTERVAL_MS
should_emit(elapsed) == elapsed >= MIN_EMIT_INTERVAL_MS

\* 115: the window is due once it holds RMS_WINDOW samples
WindowMustExceed(len) == len > RMS_WINDOW
window_due(len) == len >= RMS_WINDOW

\* 112-138: the level meter. The window, the timestamp and the sink are
\* touched by this thread alone, so the whole section is one step.
CbLevel ==
    /\ cbPc = "level"
    /\ LockFree("rms_buffer")
    /\ LET mono == cbData
           rms_buf == rms_buffer \o mono
           emit == IF "last_emit" \in poisoned THEN TRUE
                   ELSE should_emit(now - last_emit)
           sent == emit /\ "app_handle" \notin poisoned /\ app_handle = "Some"
       IN  IF "rms_buffer" \in poisoned
           THEN UNCHANGED <<rms_buffer, last_emit, events, windows>>
           ELSE IF window_due(Len(rms_buf))
           THEN /\ events' = IF sent
                             THEN Append(events, [at |-> now, len |-> Len(rms_buf),
                                                  sum_sq |-> SumSq(rms_buf)])
                             ELSE events
                /\ last_emit' = IF emit /\ "last_emit" \notin poisoned
                                THEN now ELSE last_emit
                /\ windows' = Append(windows, [at |-> now, emitted |-> sent,
                                               len |-> Len(rms_buf)])
                /\ rms_buffer' = <<>>
           ELSE /\ rms_buffer' = rms_buf
                /\ UNCHANGED <<last_emit, events, windows>>
    /\ cbPc' = "idle"
    /\ cbData' = <<>>
    /\ UNCHANGED <<recording, buffer, stream, input_sample_rate, app_handle,
                   held, poisoned, pc, res, config, live_streams, playing, now,
                   session>>
    /\ UNCHANGED <<uploadVars, pureVars>>

\* Time passes. The clock is read by the closure of a stream alone (its
\* last_emit, an Instant compared with later Instants), so time is counted
\* from the creation of that closure and only while the stream exists.
TickSteps == {10, 50}
Tick ==
    /\ live_streams > 0
    /\ \E d \in TickSteps :
          /\ now + d <= MaxTime
          /\ now' = now + d
    /\ UNCHANGED <<recording, buffer, stream, input_sample_rate, app_handle,
                   rms_buffer, last_emit, held, poisoned, pc, res, config,
                   cbPc, cbData, live_streams, playing, events, session,
                   windows>>
    /\ UNCHANGED <<uploadVars, pureVars>>

StartMic(P) ==
    \E c \in AllCallers :
        \/ StartLock(c)
        \/ StartClear(c)
        \/ StartDevice(P, c)
        \/ StartBuild(c)
        \/ StartPlay(c)
        \/ StartStore(c)

StopMic ==
    \E c \in AllCallers :
        \/ StopLock(c)
        \/ StopDrop(c)
        \/ StopRead(c)

Callback(P) ==
    \/ CbInvoke(P)
    \/ CbCheck
    \/ CbAppend
    \/ CbLevel

Session(P) ==
    \/ Setup
    \/ InvokeStart(P)
    \/ InvokeStop(P)
    \/ StartMic(P)
    \/ StopMic
    \/ Callback(P)

InitUpload ==
    /\ upPc = "idle"
    /\ server_url = <<>>
    /\ requests = <<>>
    /\ pipeline_response = NoResponse
    /\ transcribe_response = NoResponse
    /\ sendResult = NoResult

\* api.rs 72-77: the command is invoked; the URLs are formed
SendAudioCall ==
    /\ upPc = "idle"
    /\ \E u \in ServerUrls : server_url' = u
    /\ requests' = <<>>
    /\ pipeline_response' = NoResponse
    /\ transcribe_response' = NoResponse
    /\ sendResult' = NoResult
    /\ upPc' = "post_pipeline"
    /\ UNCHANGED <<micVars, pureVars>>

\* api.rs 79: the primary POST
PostPipeline ==
    /\ upPc = "post_pipeline"
    /\ requests' = Append(requests, pipeline_url(server_url))
    /\ \E o \in PostOutcomes :
          /\ pipeline_response' = IF o = SendFailed THEN NoResponse ELSE o
          /\ after_post(o, pipeline_url(server_url), "check_pipeline")
    /\ UNCHANGED <<server_url, transcribe_response>>
    /\ UNCHANGED <<micVars, pureVars>>

\* api.rs 81-94: the primary response decides
CheckPipeline ==
    /\ upPc = "check_pipeline"
    /\ IF is_success(pipeline_response.status)
       THEN /\ sendResult' = parse_json_response(pipeline_response, "pipeline_run_audio")
            /\ upPc' = "done"
       ELSE IF ~is_fallback_status(pipeline_response.status)
       THEN /\ sendResult' = ServerError(pipeline_response.status, pipeline_response.body)
            /\ upPc' = "done"
       ELSE /\ sendResult' = sendResult
            /\ upPc' = "post_transcribe"
    /\ UNCHANGED <<server_url, requests, pipeline_response, transcribe_response>>
    /\ UNCHANGED <<micVars, pureVars>>

\* api.rs 96: the fallback POST
PostTranscribe ==
    /\ upPc = "post_transcribe"
    /\ requests' = Append(requests, transcribe_url(server_url))
    /\ \E o \in PostOutcomes :
          /\ transcribe_response' = IF o = SendFailed THEN NoResponse ELSE o
          /\ after_post(o, transcribe_url(server_url), "check_transcribe")
    /\ UNCHANGED <<server_url, pipeline_response>>
    /\ UNCHANGED <<micVars, pureVars>>

\* api.rs 98-104: the fallback response decides
CheckTranscribe ==
    /\ upPc = "check_transcribe"
    /\ IF ~is_success(transcribe_response.status)
       THEN sendResult' = ServerError(transcribe_response.status, transcribe_response.body)
       ELSE sendResult' = parse_json_response(transcribe_response, "transcribe_fallback")
    /\ upPc' = "done"
    /\ UNCHANGED <<server_url, requests, pipeline_response, transcribe_response>>
    /\ UNCHANGED <<micVars, pureVars>>

\* the caller takes the result; the next invocation may follow
SendAudioReturn ==
    /\ upPc = "done"
    /\ upPc' = "idle"
    /\ UNCHANGED <<server_url, requests, pipeline_response, transcribe_response,
                   sendResult>>
    /\ UNCHANGED <<micVars, pureVars>>

NextUpload ==
    \/ SendAudioCall
    \/ PostPipeline
    \/ CheckPipeline
    \/ PostTranscribe
    \/ CheckTranscribe
    \/ SendAudioReturn

\* no pure function is called on its own in the session and upload
\* specifications
NoCall == [fn |-> "none"]
NoValue == [kind |-> "none"]
Value(v) == [kind |-> "value", value |-> v]

InitPure ==
    /\ fnArgs = NoCall
    /\ fnResult = NoValue

Init == InitMic /\ InitUpload /\ InitPure

Next == Session(CaptureProfile)
Spec == Init /\ [][Next]_vars

NextLevel == Session(LevelProfile) \/ Tick
SpecLevel == Init /\ [][NextLevel]_vars

SpecUpload == Init /\ [][NextUpload]_vars

NextRace == Session(RaceProfile)
SpecRace == Init /\ [][NextRace]_vars

(***************************************************************************)
(* mic.rs 97-139: handle_mono_samples applied to one accepted delivery.    *)
(* Its arguments are drawn by the initial state: the mono samples, the     *)
(* window so far, the time since last_emit, the sink, and which of the     *)
(* mutexes it is handed are poisoned.                                      *)
(***************************************************************************)
MeterLocks == {"rms_buffer", "last_emit", "app_handle"}

MeterMono == {Fill(<<500>>, n, 1) : n \in {RMS_WINDOW \div 2, RMS_WINDOW}}

InitMeter ==
    /\ InitUpload
    /\ InitPure
    /\ recording = TRUE
    /\ stream = "Some"
    /\ input_sample_rate = TARGET_SAMPLE_RATE
    /\ config = Config(TARGET_SAMPLE_RATE, 1, "F32")
    /\ live_streams = 1
    /\ playing = TRUE
    /\ held = [t \in Threads |-> {}]
    /\ pc = [c \in AllCallers |-> "idle"]
    /\ res = [c \in AllCallers |-> IF c = "ui1" THEN Started ELSE NoMicResult]
    /\ app_handle \in {"None", "Some"}
    /\ poisoned \in SUBSET (MeterLocks \cup {"buffer"})
    /\ rms_buffer \in {<<>>, Fill(<<500>>, RMS_WINDOW \div 2, 1)}
    /\ buffer = quantize(rms_buffer)
    /\ last_emit = 0
    /\ now \in TickSteps
    /\ cbPc = "append"
    /\ cbData \in MeterMono
    /\ session = [rate |-> TARGET_SAMPLE_RATE, samples |-> buffer \o quantize(cbData)]
    /\ events = <<>>
    /\ windows = <<>>

NextMeter == CbAppend \/ CbLevel
SpecMeter == InitMeter /\ [][NextMeter]_vars

(***************************************************************************)
(* mic.rs: the pure functions, each applied once to arguments of Init      *)
(***************************************************************************)

RECURSIVE SeqsUpTo(_, _)
SeqsUpTo(S, n) ==
    IF n = 0 THEN {<<>>}
    ELSE LET shorter == SeqsUpTo(S, n - 1)
         IN  shorter \cup {Append(q, x) : q \in {t \in shorter : Len(t) = n - 1},
                                          x \in S}

\* Sample rates, and the pairs of them whose ratio is a dyadic number: on
\* those `step`, `pos` and `frac` (146-152) are exact in the code's floats.
Rates == {8000, 16000, 32000, 48000}
Dyadic(a, b) == \E k \in 0..4 : (a * (2 ^ k)) % b = 0
RatePairs == {p \in Rates \X Rates : Dyadic(p[1], p[2])}

I16Samples == {I16_MIN, 0, I16_MAX}

\* native samples of each format on which the converters are exact
NativeSamples(format) ==
    CASE format = "F32" -> {500, -1500}
      [] format = "I16" -> {I16_MIN, I16_MAX}
      [] format = "U16" -> {0, U16_MAX}

\* channel counts whose division is exact
ChannelCounts == {1, 2, 4}

ResampleCalls ==
    {[fn |-> "resample_linear_i16", input |-> q, input_rate |-> p[1],
      output_rate |-> p[2]] : q \in SeqsUpTo(I16Samples, MaxLen), p \in RatePairs}

MonoCalls ==
    UNION {{[fn |-> "to_mono", data |-> d, config |-> Config(16000, c, f)] :
               d \in SeqsUpTo(NativeSamples(f), MaxLen), c \in ChannelCounts} :
           f \in SupportedFormats}

InitPureCall ==
    /\ InitMic
    /\ InitUpload
    /\ fnArgs \in ResampleCalls \cup MonoCalls
    /\ fnResult = NoValue

CallResample ==
    /\ fnArgs.fn = "resample_linear_i16"
    /\ fnResult = NoValue
    /\ fnResult' = Value(resample_linear_i16(fnArgs.input, fnArgs.input_rate,
                                             fnArgs.output_rate))
    /\ UNCHANGED <<fnArgs, uploadVars, micVars>>

CallToMono ==
    /\ fnArgs.fn = "to_mono"
    /\ fnResult = NoValue
    /\ fnResult' = Value(to_mono(fnArgs.data, fnArgs.config))
    /\ UNCHANGED <<fnArgs, uploadVars, micVars>>

NextPure == CallResample \/ CallToMono

SpecPure == InitPureCall /\ [][NextPure]_vars

(***************************************************************************)
(* Properties of the capture session (Spec)                                *)
(***************************************************************************)

\* C1: a start_mic that finds the recording flag set returns "Already
\* recording" and leaves the flag, the stream handle, the native rate and the
\* CaptureBuffer as they were.
C1_SecondStartRejected ==
    [][\A c \in AllCallers :
          (pc[c] = "start_lock" /\ pc'[c] # "start_lock" /\ recording)
              => /\ res'[c] = Err("Already recording")
                 /\ pc'[c] = "idle"
                 /\ UNCHANGED <<recording, stream, input_sample_rate, buffer>>]_vars

\* a second start was rejected while the first recording holds samples
C1_Witness ==
    \E c \in AllCallers :
        /\ res[c] = Err("Already recording")
        /\ recording
        /\ buffer # <<>>

\* C2: a stop_mic that finds the recording flag clear returns "Not
\* recording" and leaves the CaptureBuffer, the flag, the stream handle and the
\* native rate as they were.
C2_StopWhileIdleRejected ==
    [][\A c \in AllCallers :
          (pc[c] = "stop_lock" /\ pc'[c] # "stop_lock" /\ ~recording)
              => /\ res'[c] = Err("Not recording")
                 /\ pc'[c] = "idle"
                 /\ UNCHANGED <<buffer, recording, stream, input_sample_rate>>]_vars

\* a stop was rejected after an earlier recording left samples in the buffer
C2_Witness ==
    \E c \in AllCallers :
        /\ res[c] = Err("Not recording")
        /\ ~recording
        /\ buffer # <<>>

\* C3: whenever no start_mic or stop_mic holds the recording lock, the stream
\* handle is Some exactly when the recording flag is true.
C3_StreamIffRecording ==
    LockFree("recording") => (stream = "Some" <=> recording)

\* a recording is running, nobody is inside a command, samples have arrived
C3_Witness ==
    /\ LockFree("recording")
    /\ recording
    /\ stream = "Some"
    /\ buffer # <<>>

\* C10: a successful stop_mic returns the samples its own session's callback
\* accepted, in order, resampled from the rate that session's start recorded
\* to 16 kHz, and unchanged when that rate is 16 kHz.
C10_StopReturnsOwnSession ==
    [][\A c \in AllCallers :
          (pc[c] = "stop_read" /\ res'[c].kind = "stopped")
              => res'[c].samples =
                    IF session.rate = 16000 THEN session.samples
                    ELSE resample_linear_i16(session.samples, session.rate, 16000)]_vars

\* a stop returned a recording made at 8 kHz, longer than what was captured
C10_Witness ==
    \E c \in AllCallers :
        /\ res[c].kind = "stopped"
        /\ input_sample_rate = 8000
        /\ Len(buffer) >= 2
        /\ Len(res[c].samples) > Len(buffer)

\* C13 as stated: once stop_mic has cleared the recording flag, no callback
\* delivery appends to the CaptureBuffer.
C13_NoAppendAfterFlagCleared ==
    [][Len(buffer') > Len(buffer) => recording]_vars

\* C13 amended: a delivery that reads the flag after stop_mic cleared it
\* appends nothing; a delivery that read it before may still append, but only
\* while the stream exists, before stop_mic's teardown returns; once the
\* stream is torn down the buffer changes only when the next start_mic
\* clears it.
C13_AppendsEndBeforeTeardown ==
    [][/\ Len(buffer') > Len(buffer)
            => /\ cbPc = "append"
               /\ stream = "Some"
               /\ recording \/ \E c \in AllCallers : pc[c] = "stop_drop"
       /\ (cbPc = "check" /\ cbPc' # "check" /\ ~recording)
            => (cbPc' = "idle" /\ buffer' = buffer)
       /\ (stream = "None" /\ buffer' # buffer)
            => (buffer' = <<>> /\ \E c \in AllCallers : pc[c] = "start_clear")]_vars

\* stop_mic has cleared the flag and waits to tear the stream down while a
\* delivery that passed its check is about to append
C13_Witness ==
    /\ ~recording
    /\ \E c \in AllCallers : pc[c] = "stop_drop"
    /\ cbPc = "append"
    /\ buffer # <<>>

\* C14: no thread ever holds more than one of the session's locks at once.
C14_OneLockAtATime ==
    \A t \in Threads : Cardinality(held[t]) <= 1

\* C15: stop_mic and the callback never wait for each other: no state has a
\* delivery waiting for the recording lock that a stop_mic holds while that
\* stop_mic waits, in the teardown of the stream, for the delivery to finish.
\* (From such a state neither the delivery finishes nor stop_mic returns.)
CallbackWaitsFor(c) == cbPc = "check" /\ "recording" \in held[c]
StopWaitsForCallback(c) ==
    pc[c] = "stop_drop" /\ stream = "Some" /\ ~drop_returns(cbPc)

C15_NoCircularWait ==
    \A c \in AllCallers : ~(CallbackWaitsFor(c) /\ StopWaitsForCallback(c))

\* C19: a start_mic that fails for a device reason has emptied the
\* CaptureBuffer and leaves the flag false and no stream stored or alive;
\* from there a start_mic is not rejected as "Already recording" and a
\* stop_mic is rejected as "Not recording".
DeviceErrors ==
    {"No input device available", "Failed to get default input config",
     "Input device reports zero channels", "Unsupported sample format",
     "Failed to build input stream", "Failed to start stream"}

FailedStart(c) ==
    pc[c] = "idle" /\ res[c].kind = "err" /\ res[c].msg \in DeviceErrors

C19_FailedStartLeavesIdle ==
    [][\A c \in AllCallers :
          /\ (pc[c] \in {"start_device", "start_build", "start_play"} /\ pc'[c] = "idle")
                => /\ res'[c].kind = "err"
                   /\ res'[c].msg \in DeviceErrors
                   /\ buffer' = <<>>
          /\ FailedStart(c)
                => /\ ~recording
                   /\ stream = "None"
                   /\ live_streams = 0
                   /\ held[c] = {}
                   /\ pc'[c] = "start_lock" => ~recording'
                   /\ pc'[c] = "stop_lock" => ~recording'
          /\ (pc[c] = "start_lock" /\ pc'[c] # "start_lock" /\ ~recording)
                => /\ pc'[c] = "start_clear"
                   /\ res'[c] # Err("Already recording")
          /\ (pc[c] = "stop_lock" /\ pc'[c] # "stop_lock" /\ ~recording)
                => res'[c] = Err("Not recording")]_vars

\* a start failed at stream.play() after it had recorded the device's rate
C19_Witness ==
    \E c \in AllCallers :
        /\ res[c] = Err("Failed to start stream")
        /\ pc[c] = "idle"
        /\ input_sample_rate = 48000
        /\ buffer = <<>>
        /\ ~recording

(***************************************************************************)
(* Properties of the session with two caller threads (SpecRace)            *)
(***************************************************************************)

InCommand == {c \in AllCallers : pc[c] \notin {"idle", "start_lock", "stop_lock"}}

Emitted(ws) == {k \in DOMAIN ws : ws[k].emitted}

\* C8: the mic-level events of a session are at least 50 ms apart, each is
\* for a window of at least 800 samples, and a window that was throttled
\* never yields an event later: there is one event per emitting window.
C8_EventsAtLeast50msApart ==
    /\ \A i, j \in DOMAIN events : i < j => events[j].at - events[i].at >= 50
    /\ \A i \in DOMAIN events : events[i].len >= 800
    /\ Len(events) = Cardinality(Emitted(windows))
    /\ \A i \in DOMAIN events : \E k \in Emitted(windows) : windows[k].at = events[i].at

\* two events were emitted in one session
C8_Witness == Len(events) >= 2

\* C16: the level window holds fewer than 800 samples after every delivery;
\* a delivery that brings it to 800 or more empties it, whether or not an
\* event is emitted, and the loudness is taken over the whole window; a new
\* session starts with an empty window.
C16_WindowBound ==
    [][/\ Len(rms_buffer') < RMS_WINDOW
       /\ (cbPc = "level" /\ cbPc' = "idle")
            => LET total == Len(rms_buffer) + Len(cbData)
               IN  IF total >= RMS_WINDOW
                   THEN /\ rms_buffer' = <<>>
                        /\ Len(windows') = Len(windows) + 1
                        /\ windows'[Len(windows')].len = total
                        /\ Len(events') > Len(events)
                              => /\ events'[Len(events')].len = total
                                 /\ events'[Len(events')].sum_sq
                                       = SumSq(rms_buffer \o cbData)
                   ELSE /\ rms_buffer' = rms_buffer \o cbData
                        /\ UNCHANGED <<windows, events>>
       /\ \A c \in AllCallers :
             (pc[c] = "start_build" /\ pc'[c] = "start_play") => rms_buffer' = <<>>]_vars

\* a window of 1200 samples was emptied without an event
C16_Witness ==
    /\ rms_buffer = <<>>
    /\ cbPc = "idle"
    /\ \E k \in DOMAIN windows : windows[k].len = 1200 /\ ~windows[k].emitted

PairEvents(k) ==
    Cardinality({j \in {k, k + 1} : windows[j].emitted})

C9_PairCounts ==
    \A k \in 1..(Len(windows) - 1) :
        LET gap == windows[k + 1].at - windows[k].at
        IN  /\ gap = 10 => PairEvents(k) = 1
            /\ gap = 60 => PairEvents(k) = 2

\* C9 amended: the counts hold for a pair whose first window emitted; the
\* first window of a session emits only when it completes at least 50 ms
\* after the stream was created; a pair whose first window was throttled
\* yields at most one event.
C9_PairCountsAfterEmission ==
    /\ \A k \in 1..(Len(windows) - 1) :
          LET gap == windows[k + 1].at - windows[k].at
          IN  IF windows[k].emitted
              THEN /\ gap < 50 => PairEvents(k) = 1
                   /\ gap >= 50 => PairEvents(k) = 2
              ELSE PairEvents(k) <= 1
    /\ windows # <<>> => (windows[1].emitted <=> windows[1].at >= 50)

\* two consecutive windows 60 ms apart both emitted
C9_Witness ==
    \E k \in 1..(Len(windows) - 1) :
        /\ windows[k + 1].at - windows[k].at = 60
        /\ PairEvents(k) = 2

(***************************************************************************)
(* Properties of the upload (SpecUpload)                                   *)
(***************************************************************************)

EndsWith(s, suffix) ==
    /\ Len(s) >= Len(suffix)
    /\ SubSeq(s, Len(s) - Len(suffix) + 1, Len(s)) = suffix

FallbackPosts == {i \in DOMAIN requests : EndsWith(requests[i], TranscribePath)}
Finished == upPc = "done"

\* C4: the fallback endpoint is POSTed, once, exactly when the primary
\* endpoint answered 404 or 405; any other non-2xx primary status ends the
\* upload with a ServerError of that status and body and no fallback POST.
C4_FallbackOnlyOn404or405 ==
    LET reached == pipeline_response.kind = "response"
        st == pipeline_response.status
    IN  /\ Cardinality(FallbackPosts) <= 1
        /\ FallbackPosts # {} => (reached /\ st \in {404, 405})
        /\ (Finished /\ reached /\ st \in {404, 405}) => Cardinality(FallbackPosts) = 1
        /\ (Finished /\ reached /\ st \notin {404, 405} /\ ~(st >= 200 /\ st < 300))
              => /\ sendResult = ServerError(st, pipeline_response.body)
                 /\ FallbackPosts = {}

\* the primary answered 404 and the fallback was POSTed
C4_Witness ==
    /\ Finished
    /\ pipeline_response.kind = "response"
    /\ pipeline_response.status = 404
    /\ Cardinality(FallbackPosts) = 1

\* C5: a POST that obtains no response ends the upload with a TransportError
\* naming its URL, and no request follows it.
C5_TransportFailureEndsUpload ==
    /\ Len(requests) <= 2
    /\ (Len(requests) = 1 /\ pipeline_response.kind = "none")
          => (upPc \in {"done", "idle"} /\ sendResult = TransportError(requests[1]))
    /\ (Len(requests) = 2 /\ transcribe_response.kind = "none")
          => (upPc \in {"done", "idle"} /\ sendResult = TransportError(requests[2]))
    /\ sendResult.kind = "transport"
          => /\ sendResult.url = requests[Len(requests)]
             /\ (IF Len(requests) = 1 THEN pipeline_response ELSE transcribe_response)
                    = NoResponse

\* the primary POST failed on the network and nothing was sent after it
C5_Witness ==
    /\ sendResult.kind = "transport"
    /\ Len(requests) = 1
    /\ EndsWith(requests[1], PipelinePath)

HasMarker(v, label) ==
    /\ v.kind = "object"
    /\ "_endpoint_used" \in DOMAIN v.fields
    /\ v.fields["_endpoint_used"] = JString(label)

ServingLabel == IF Len(requests) = 1 THEN "pipeline_run_audio" ELSE "transcribe_fallback"
ServingBody == IF Len(requests) = 1 THEN pipeline_response.body ELSE transcribe_response.body

\* C6 as stated: every successful result carries the marker of the endpoint
\* that served it, whatever the JSON shape of the body.
C6_MarkerOnEverySuccess ==
    sendResult.kind = "ok" => HasMarker(sendResult.value, ServingLabel)

\* C6 amended: a successful result whose body is a JSON object carries the
\* marker of the endpoint that served it and keeps the body's other fields;
\* a body of any other JSON shape is returned as parsed, without a marker.
C6_MarkerOnObjects ==
    sendResult.kind = "ok" =>
        LET parsed == json(ServingBody)
            v == sendResult.value
        IN  IF parsed.kind = "object"
            THEN /\ HasMarker(v, ServingLabel)
                 /\ DOMAIN v.fields = DOMAIN parsed.fields \cup {"_endpoint_used"}
                 /\ \A k \in DOMAIN parsed.fields \ {"_endpoint_used"} :
                        v.fields[k] = parsed.fields[k]
            ELSE v = parsed

\* the fallback served an object that already had an _endpoint_used field
C6_Witness ==
    /\ sendResult.kind = "ok"
    /\ Len(requests) = 2
    /\ ServingBody = "{\"_endpoint_used\":\"server\"}"

PathOf(i) == IF i = 1 THEN PipelinePath ELSE TranscribePath

\* C7 as stated: the request URLs are the base URL less exactly one trailing
\* '/', followed by the endpoint path.
C7_StripsOneSlash ==
    \A i \in DOMAIN requests : requests[i] = strip1(server_url) \o PathOf(i)

\* C7 amended: the request URLs are the base URL less all of its trailing
\* '/', followed by the endpoint path.
C7_StripsEveryTrailingSlash ==
    \A i \in DOMAIN requests :
        /\ EndsWith(requests[i], PathOf(i))
        /\ LET base == SubSeq(requests[i], 1, Len(requests[i]) - Len(PathOf(i)))
           IN  /\ Len(base) <= Len(server_url)
               /\ base = SubSeq(server_url, 1, Len(base))
               /\ base # <<>> => base[Len(base)] # "/"
               /\ \A j \in (Len(base) + 1)..Len(server_url) : server_url[j] = "/"

\* both endpoints were POSTed for a base URL that ends in two '/'
C7_Witness ==
    /\ Len(requests) = 2
    /\ server_url = <<"h", "/", "/">>

(***************************************************************************)
(* Properties of the pure functions (SpecPure)                             *)
(***************************************************************************)

Resampled == fnArgs.fn = "resample_linear_i16" /\ fnResult.kind = "value"
Converted == fnArgs.fn = "to_mono" /\ fnResult.kind = "value"

\* C11: resampling from a rate to the same rate returns the input, and
\* resampling the empty sequence returns the empty sequence.
C11_ResampleIdentity ==
    Resampled =>
        /\ fnArgs.input_rate = fnArgs.output_rate => fnResult.value = fnArgs.input
        /\ fnArgs.input = <<>> => fnResult.value = <<>>

\* three samples were resampled from 48 kHz to 48 kHz
C11_Witness ==
    /\ Resampled
    /\ fnArgs.input_rate = 48000
    /\ fnArgs.output_rate = 48000
    /\ Len(fnArgs.input) = 3
    /\ Len(fnResult.value) = 3

C18_OnePerCompleteFrame ==
    Converted => Len(fnResult.value) = Len(fnArgs.data) \div fnArgs.config.channels

\* C18 amended: it yields ceil(L / C) mono samples, one per frame, a
\* trailing partial frame included: L / C when C divides L, L when C = 1.
C18_OnePerFrame ==
    Converted =>
        LET l == Len(fnArgs.data)
            c == fnArgs.config.channels
            m == Len(fnResult.value)
        IN  /\ m * c >= l
            /\ (m - 1) * c < l
            /\ l % c = 0 => m = l \div c
            /\ c = 1 => m = l

\* three samples in frames of two channels became two mono samples
C18_Witness ==
    /\ Converted
    /\ fnArgs.config.channels = 2
    /\ Len(fnArgs.data) = 3
    /\ Len(fnResult.value) = 2

====
